---- MODULE Spec2Model ----
(***************************************************************************)
(* A model of src/server.rs: the n8n tool server.  `Server::from_env`      *)
(* builds the connection config and the HTTP client; every `#[tool]`       *)
(* method of `impl Server` turns its typed arguments into one HTTP         *)
(* request, awaits `send()`, awaits the JSON body and wraps the outcome    *)
(* in a CallToolResult.                                                    *)
(*                                                                         *)
(* Strings that are only compared are TLA+ strings.  Environment values    *)
(* are byte sequences because from_env inspects their bytes.  A URL is the *)
(* base URL plus the sequence of pieces that `format!` concatenates.  A    *)
(* response body is a sequence of JSON tokens.                             *)
(***************************************************************************)
EXTENDS Integers, Sequences, FiniteSets, TLC

VARIABLES env, phase, server, calls, keysSeen, remote

vars == <<env, phase, server, calls, keysSeen, remote>>

(***************************************************************************)
(* The process environment and Server::from_env (server.rs 22-43)          *)
(***************************************************************************)
Unset == <<-1>>

KeyGood == <<107, 49>>
KeyCtl == <<107, 10>>
NotUnicode == <<110, 56, 110, 255, 254>>
UrlGood == <<104, 116, 116, 112>>
UserGood == <<117>>
PassGood == <<112>>

EnvChoices ==
  [N8N_API_KEY : {Unset, KeyGood, KeyCtl, NotUnicode},
   N8N_BASE_URL : {Unset, UrlGood, NotUnicode},
   N8N_USER : {Unset, UserGood, NotUnicode},
   N8N_PASSWORD : {Unset, PassGood}]

\* std::env::var: Err when the variable is unset or is not valid Unicode.
\* The byte alphabet of the model is ASCII plus 0xFF, for which a value is
\* valid UTF-8 exactly when every byte is below 128.
EnvVar(e, name) ==
  IF e[name] = Unset THEN [ok |-> FALSE, v |-> Unset]
  ELSE IF \A i \in 1..Len(e[name]) : e[name][i] < 128
       THEN [ok |-> TRUE, v |-> e[name]]
       ELSE [ok |-> FALSE, v |-> Unset]

\* Result::ok(): the error is dropped and the field is None.
EnvVarOk(e, name) == EnvVar(e, name).v

\* HeaderValue::from_str: only visible ASCII, bytes 128-255 and tab.
HeaderValueFromStr(s) ==
  IF \A i \in 1..Len(s) : ((s[i] >= 32 /\ s[i] # 127) \/ s[i] = 9)
  THEN [ok |-> TRUE, v |-> s]
  ELSE [ok |-> FALSE, v |-> Unset]

\* The HeaderMap of from_env, as name-value pairs: one entry, the API key.
DefaultHeaders(api_key) == {<<"X-N8N-API-KEY", api_key>>}

\* reqwest::Client::builder().default_headers(headers).build().unwrap():
\* the build of a client that has only default headers is taken to succeed.
ClientBuild(headers) == [default_headers |-> headers]

NoServer == [client |-> [default_headers |-> {}], base_url |-> Unset,
             n8n_user |-> Unset, n8n_password |-> Unset]

\* A from_env that falls back to an empty base URL instead of panicking.
FromEnvPanicsNoUrl(e) ==
  \/ ~EnvVar(e, "N8N_API_KEY").ok
  \/ ~HeaderValueFromStr(EnvVar(e, "N8N_API_KEY").v).ok

\* from_env panics at an expect()/unwrap(), or returns the Server.
FromEnvPanics(e) ==
  \/ ~EnvVar(e, "N8N_API_KEY").ok
  \/ ~EnvVar(e, "N8N_BASE_URL").ok
  \/ ~HeaderValueFromStr(EnvVar(e, "N8N_API_KEY").v).ok

FromEnvServer(e) ==
  [client |-> ClientBuild(DefaultHeaders(
                 HeaderValueFromStr(EnvVar(e, "N8N_API_KEY").v).v)),
   base_url |-> EnvVar(e, "N8N_BASE_URL").v,
   n8n_user |-> EnvVarOk(e, "N8N_USER"),
   n8n_password |-> EnvVarOk(e, "N8N_PASSWORD")]

(***************************************************************************)
(* JSON values of an incoming tool call, and the typed parameters          *)
(***************************************************************************)
Missing == [t |-> "missing"]
JNull == [t |-> "null"]
JStr(x) == [t |-> "str", s |-> x]
JNum(x) == [t |-> "num", n |-> x]
JBool(x) == [t |-> "bool", b |-> x]
JArr(x) == [t |-> "arr", a |-> x]
JObj(x) == [t |-> "obj", f |-> x]
JOpaque(x) == [t |-> "json", s |-> x]

\* Rust's Option::None and the unit variants of ExecutionStatus.
None == [t |-> "None"]
StatusError == [t |-> "ExecutionStatus::Error"]

Tools ==
  {"retrieve_all_executions", "retrieve_execution_by_id",
   "delete_execution_by_id", "create_workflow", "retrieve_workflows",
   "retrieve_workflow_by_id", "delete_workflow_by_id",
   "activate_workflow_by_id", "deactivate_workflow_by_id",
   "update_workflow_by_id", "get_workflow_tags_by_workflow_id",
   "update_workflow_tags_by_workflow_id", "run_workflow", "create_tag",
   "retrieve_tags", "retrieve_tag_by_id", "delete_tag_by_id",
   "update_tag_by_id"}

\* The #[tool(param)] parameters of each tool and their Rust types.
Schema(tool) ==
  CASE tool = "retrieve_all_executions" ->
         [include_data |-> "bool", status |-> "ExecutionStatus",
          workflow_id |-> "Option<String>", project_id |-> "Option<String>",
          limit |-> "u8", cursor |-> "String"]
    [] tool \in {"retrieve_execution_by_id", "delete_execution_by_id"} ->
         [execution_id |-> "String"]
    [] tool = "create_workflow" ->
         [name |-> "String", nodes |-> "Value", connections |-> "Value"]
    [] tool = "retrieve_workflows" ->
         [retrieve_workflow_params |-> "RetrieveAllWorkflowParams"]
    [] tool \in {"retrieve_workflow_by_id", "delete_workflow_by_id",
                 "activate_workflow_by_id", "deactivate_workflow_by_id",
                 "get_workflow_tags_by_workflow_id"} ->
         [workflow_id |-> "String"]
    [] tool = "update_workflow_by_id" ->
         [workflow_id |-> "String", name |-> "String", nodes |-> "Value",
          connections |-> "Value"]
    [] tool = "update_workflow_tags_by_workflow_id" ->
         [workflow_id |-> "String", tags |-> "Vec<Id>"]
    [] tool = "run_workflow" ->
         [webhook_path |-> "String", data |-> "Option<Value>"]
    [] tool = "create_tag" -> [name |-> "String"]
    [] tool = "retrieve_tags" -> [cursor |-> "Option<String>"]
    [] tool \in {"retrieve_tag_by_id", "delete_tag_by_id"} ->
         [tag_id |-> "String"]
    [] tool = "update_tag_by_id" -> [tag_id |-> "String", name |-> "String"]

\* The fields of RetrieveAllWorkflowParams (server.rs 55-65).  The container
\* attribute rename = "camelCase" renames the struct, not its fields.
RetrieveAllWorkflowParams ==
  [active |-> "Option<bool>", tags |-> "Option<String>",
   name |-> "Option<String>", project_id |-> "Option<String>",
   exclude_pinned_data |-> "Option<String>", limit |-> "Option<u8>",
   cursor |-> "Option<String>"]

U8Max == 255

\* serde: does the JSON value v (Missing when the key is absent) deserialize
\* into the Rust type ty.
RECURSIVE Accepts(_, _)
Accepts(ty, v) ==
  CASE ty = "String" -> v.t = "str"
    [] ty = "bool" -> v.t = "bool"
    [] ty = "u8" -> v.t = "num" /\ v.n >= 0 /\ v.n <= U8Max
    [] ty = "Value" -> v.t # "missing"
    [] ty = "ExecutionStatus" -> v.t = "null"
    [] ty = "Vec<Id>" -> v.t = "arr"
    [] ty = "Option<String>" -> v.t \in {"missing", "null"} \/ Accepts("String", v)
    [] ty = "Option<bool>" -> v.t \in {"missing", "null"} \/ Accepts("bool", v)
    [] ty = "Option<u8>" -> v.t \in {"missing", "null"} \/ Accepts("u8", v)
    [] ty = "Option<Value>" -> TRUE
    [] ty = "RetrieveAllWorkflowParams" ->
         /\ v.t = "obj"
         /\ \A k \in DOMAIN RetrieveAllWorkflowParams :
              Accepts(RetrieveAllWorkflowParams[k], v.f[k])

\* The typed value the handler receives for an accepted JSON value.
RECURSIVE Typed(_, _)
Typed(ty, v) ==
  CASE ty \in {"Option<String>", "Option<bool>", "Option<u8>", "Option<Value>"} ->
         IF v.t \in {"missing", "null"} THEN None ELSE v
    [] ty = "ExecutionStatus" -> StatusError
    [] ty = "RetrieveAllWorkflowParams" ->
         [k \in DOMAIN RetrieveAllWorkflowParams |->
            Typed(RetrieveAllWorkflowParams[k], v.f[k])]
    [] OTHER -> v

\* A parameter struct whose serde_json::Value fields default when absent.
ParamsOkLax(tool, payload) ==
  \A k \in DOMAIN Schema(tool) :
    Schema(tool)[k] = "Value" \/ Accepts(Schema(tool)[k], payload[k])

\* The protocol layer deserializes the call's arguments into the parameter
\* struct the #[tool] macro derives; the body runs only with every parameter.
ParamsOk(tool, payload) ==
  \A k \in DOMAIN Schema(tool) : Accepts(Schema(tool)[k], payload[k])

Args(tool, payload) ==
  [k \in DOMAIN Schema(tool) |-> Typed(Schema(tool)[k], payload[k])]

(***************************************************************************)
(* The request each tool body builds (server.rs 141-152, 177-179, ...)     *)
(***************************************************************************)
\* serde_json::to_value as json! applies it to a typed parameter: None and
\* the unit variants of the untagged ExecutionStatus become null.
ToJson(x) == IF x.t \in {"None", "ExecutionStatus::Error"} THEN JNull ELSE x

DigitStr == <<"0", "1", "2", "3", "4", "5", "6", "7", "8", "9">>

\* The decimal text of a non-negative integer.
RECURSIVE Decimal(_)
Decimal(n) ==
  IF n < 10 THEN <<DigitStr[n + 1]>>
  ELSE Decimal(n \div 10) \o <<DigitStr[(n % 10) + 1]>>

\* serde_urlencoded: the text of one query value.
PartText(v) ==
  CASE v.t = "str" -> <<v.s>>
    [] v.t = "bool" -> IF v.b THEN <<"true">> ELSE <<"false">>
    [] v.t = "num" -> Decimal(v.n)

\* serde_urlencoded supports strings, numbers, booleans and Option as the
\* value of a pair; a unit (JSON null), a sequence or a map is rejected.
QueryUnsupported(v) == v.t \in {"null", "arr", "obj", "json"}

NoQuery == [ok |-> TRUE, pairs |-> {}]

\* RequestBuilder::query(&T) for a map or struct given as key -> value;
\* an Option that is None leaves its pair out.
QueryOf(fields) ==
  IF \E k \in DOMAIN fields : QueryUnsupported(fields[k])
  THEN [ok |-> FALSE, pairs |-> {}]
  ELSE [ok |-> TRUE,
        pairs |-> {<<k, PartText(fields[k])>> :
                     k \in {j \in DOMAIN fields : fields[j].t # "None"}}]

\* WorkflowSettings::default() as json! serializes it; the untagged AllOrNone
\* unit variants serialize as null.
DefaultSettings ==
  [save_execution_progress |-> JBool(FALSE),
   save_manual_executions |-> JBool(FALSE),
   save_data_error_execution |-> JNull,
   save_data_success_execution |-> JNull,
   execution_timeout |-> JNum(0)]

WorkflowBody(args) ==
  JObj([name |-> args.name, nodes |-> args.nodes,
        connections |-> args.connections, settings |-> JObj(DefaultSettings),
        staticData |-> JStr("null")])

NoBody == [t |-> "nobody"]

\* A run_workflow that always posts.
RunWorkflowVerbAlwaysPost(args) == "POST"

\* run_workflow: `if let Some(data) = data { post } else { get }`.
RunWorkflowVerb(args) == IF args.data.t # "None" THEN "POST" ELSE "GET"

Verb(tool, args) ==
  CASE tool \in {"retrieve_all_executions", "retrieve_execution_by_id",
                 "retrieve_workflows", "retrieve_workflow_by_id",
                 "get_workflow_tags_by_workflow_id", "retrieve_tag_by_id"} -> "GET"
    [] tool \in {"delete_execution_by_id", "delete_workflow_by_id",
                 "delete_tag_by_id"} -> "DELETE"
    [] tool \in {"create_workflow", "activate_workflow_by_id",
                 "deactivate_workflow_by_id", "create_tag", "retrieve_tags"} -> "POST"
    [] tool \in {"update_workflow_by_id", "update_workflow_tags_by_workflow_id",
                 "update_tag_by_id"} -> "PUT"
    [] tool = "run_workflow" -> RunWorkflowVerb(args)

\* The pieces format! appends to self.base_url.
Path(tool, args) ==
  CASE tool = "retrieve_all_executions" -> <<"/api/v1/executions">>
    [] tool \in {"retrieve_execution_by_id", "delete_execution_by_id"} ->
         <<"/api/v1/workflows/", args.execution_id.s>>
    [] tool \in {"create_workflow", "retrieve_workflows"} -> <<"/api/v1/workflows">>
    [] tool \in {"retrieve_workflow_by_id", "delete_workflow_by_id",
                 "update_workflow_by_id"} ->
         <<"/api/v1/workflows/", args.workflow_id.s>>
    [] tool = "activate_workflow_by_id" ->
         <<"/api/v1/workflows/", args.workflow_id.s, "/activate">>
    [] tool = "deactivate_workflow_by_id" ->
         <<"/api/v1/workflows/", args.workflow_id.s, "/deactivate">>
    [] tool \in {"get_workflow_tags_by_workflow_id",
                 "update_workflow_tags_by_workflow_id"} ->
         <<"/api/v1/workflows/", args.workflow_id.s, "/tags">>
    [] tool = "run_workflow" -> <<"/webhook/", args.webhook_path.s>>
    [] tool \in {"create_tag", "retrieve_tags"} -> <<"/tags">>
    [] tool \in {"retrieve_tag_by_id", "delete_tag_by_id", "update_tag_by_id"} ->
         <<"/tags/", args.tag_id.s>>

\* A retrieve_workflows that leaves the cursor out of its query.
QueryCursorDropped(tool, args) ==
  CASE tool = "retrieve_all_executions" ->
         QueryOf([includeData |-> ToJson(args.include_data),
                  status |-> ToJson(args.status),
                  workflowId |-> ToJson(args.workflow_id),
                  projectId |-> ToJson(args.project_id),
                  limit |-> ToJson(args.limit),
                  cursor |-> ToJson(args.cursor)])
    [] tool = "retrieve_workflows" ->
         QueryOf([args.retrieve_workflow_params EXCEPT !.cursor = None])
    [] tool = "retrieve_tags" -> QueryOf([cursor |-> ToJson(args.cursor)])
    [] OTHER -> NoQuery

Query(tool, args) ==
  CASE tool = "retrieve_all_executions" ->
         QueryOf([includeData |-> ToJson(args.include_data),
                  status |-> ToJson(args.status),
                  workflowId |-> ToJson(args.workflow_id),
                  projectId |-> ToJson(args.project_id),
                  limit |-> ToJson(args.limit),
                  cursor |-> ToJson(args.cursor)])
    [] tool = "retrieve_workflows" -> QueryOf(args.retrieve_workflow_params)
    [] tool = "retrieve_tags" -> QueryOf([cursor |-> ToJson(args.cursor)])
    [] OTHER -> NoQuery

Body(tool, args) ==
  CASE tool \in {"create_workflow", "update_workflow_by_id"} -> WorkflowBody(args)
    [] tool = "update_workflow_tags_by_workflow_id" -> args.tags
    [] tool = "run_workflow" -> IF args.data.t # "None" THEN args.data ELSE NoBody
    [] tool \in {"create_tag", "update_tag_by_id"} -> JObj([name |-> args.name])
    [] OTHER -> NoBody

\* A run_workflow that calls the webhook through a client of its own.
RequestHeadersWebhookBare(srv, tool) ==
  IF tool = "run_workflow" THEN {} ELSE srv.client.default_headers

\* The headers a request of this client carries: the client's default headers.
RequestHeaders(srv, tool) == srv.client.default_headers

\* self.client.<verb>(url).query(..).json(..): the builder keeps the first
\* error and send() then returns it without any I/O.
RequestBuilder(srv, tool, args) ==
  [ok |-> Query(tool, args).ok,
   req |-> [verb |-> Verb(tool, args), base |-> srv.base_url,
            path |-> Path(tool, args), query |-> Query(tool, args).pairs,
            body |-> Body(tool, args), headers |-> RequestHeaders(srv, tool)]]

(***************************************************************************)
(* Response bodies: res.json::<Value>() and serde_json::to_string_pretty    *)
(***************************************************************************)
Whitespace == {" ", "\n"}
KeyOrder == <<"\"data\"", "\"id\"", "\"name\"", "\"nextCursor\"">>
PageToken == <<"\"p1\"", "\"p2\"", "\"p3\"", "\"p4\"", "\"p5\"", "\"p6\"">>
CursorToken == <<"\"c1\"", "\"c2\"", "\"c3\"", "\"c4\"", "\"c5\"", "\"c6\"">>
CursorRaw == <<"c1", "c2", "c3", "c4", "c5", "c6">>
StringTokens ==
  {"\"42\"", "\"7\"", "\"demo\"", "\"id\"", "\"name\"", "\"data\"", "\"nextCursor\""}
    \cup {PageToken[i] : i \in 1..Len(PageToken)}
    \cup {CursorToken[i] : i \in 1..Len(CursorToken)}
ScalarTokens == StringTokens \cup {"null", "true"}

IsSignificant(tok) == tok \notin Whitespace

\* The tokens between the braces are empty or  key : value (, key : value)*
MembersOk(m) ==
  \/ Len(m) = 0
  \/ /\ Len(m) % 4 = 3
     /\ \A i \in 1..Len(m) :
          CASE i % 4 = 1 -> m[i] \in StringTokens
            [] i % 4 = 2 -> m[i] = ":"
            [] i % 4 = 3 -> m[i] \in ScalarTokens
            [] OTHER -> m[i] = ","

\* The map of an object: a key that occurs twice keeps its last value.
MembersMap(m) ==
  LET keys == {m[i] : i \in {j \in 1..Len(m) : j % 4 = 1}}
      last(k) == CHOOSE i \in 1..Len(m) :
                   /\ i % 4 = 1 /\ m[i] = k
                   /\ \A j \in 1..Len(m) : (j % 4 = 1 /\ m[j] = k) => j <= i
  IN  {<<k, m[last(k) + 2]>> : k \in keys}

\* serde_json::from_slice::<Value>: a scalar or a flat object, else an error.
FromJson(body) ==
  LET s == SelectSeq(body, IsSignificant)
  IN  IF Len(s) = 1 /\ s[1] \in ScalarTokens
      THEN [ok |-> TRUE, v |-> [t |-> "scalar", tok |-> s[1]]]
      ELSE IF /\ Len(s) >= 2 /\ s[1] = "{" /\ s[Len(s)] = "}"
              /\ MembersOk(SubSeq(s, 2, Len(s) - 1))
           THEN [ok |-> TRUE,
                 v |-> [t |-> "object",
                        map |-> MembersMap(SubSeq(s, 2, Len(s) - 1))]]
           ELSE [ok |-> FALSE, v |-> [t |-> "invalid"]]

\* The members of a map in key order (Value's map is a BTreeMap), each on a
\* line of its own, indented by two spaces and followed by a comma except
\* the last.
RECURSIVE PrettyMembers(_, _)
PrettyMembers(map, i) ==
  IF i > Len(KeyOrder) THEN <<>>
  ELSE LET rest == PrettyMembers(map, i + 1)
           here == {p \in map : p[1] = KeyOrder[i]}
       IN  IF here = {} THEN rest
           ELSE LET p == CHOOSE q \in here : TRUE
                IN  <<"\n", "  ", p[1], ": ", p[2]>>
                      \o (IF rest = <<>> THEN <<>> ELSE <<",">>) \o rest

ToStringPretty(v) ==
  IF v.t = "scalar" THEN <<v.tok>>
  ELSE IF v.map = {} THEN <<"{", "}">>
       ELSE <<"{">> \o PrettyMembers(v.map, 1) \o <<"\n", "}">>

(***************************************************************************)
(* Tool results (server.rs 154-167, 545-552)                               *)
(***************************************************************************)
ContentText(text) == [type |-> "text", text |-> text]

CallToolResultSuccess(content) == [is_error |-> FALSE, content |-> content]

CallToolResultError(content) == [is_error |-> TRUE, content |-> content]

NoOutcome == [kind |-> "pending"]
Panic == [kind |-> "panic"]
ReturnOk(result) == [kind |-> "Ok", result |-> result]
ReturnErr(code) == [kind |-> "Err", error |-> code]

\* A tool that propagates the send error with `?`.
SendErrOutcomeFault(tool, err) == ReturnErr("internal_error")

\* The Err(err) arm of every tool: format!("Workflow error: {err}").
SendErrOutcome(tool, err) ==
  ReturnOk(CallToolResultError(<<ContentText(<<"Workflow error: ", err>>)>>))

\* run_workflow's Ok(res) arm: the response is dropped.
RunWorkflowOkOutcome ==
  ReturnOk(CallToolResultSuccess(<<ContentText(<<"Workflow run successful">>)>>))

\* A tool that returns the body as received.
BodyOutcomeRaw(tool, body) ==
  IF FromJson(body).ok
  THEN ReturnOk(CallToolResultSuccess(<<ContentText(body)>>))
  ELSE Panic

\* A tool that turns a body it cannot decode into an error result.
BodyOutcomeRecover(tool, body) ==
  IF FromJson(body).ok
  THEN ReturnOk(CallToolResultSuccess(
         <<ContentText(ToStringPretty(FromJson(body).v))>>))
  ELSE ReturnOk(CallToolResultError(
         <<ContentText(<<"Workflow error: ", "error decoding response body">>)>>))

\* res.json::<Value>().await.unwrap(), to_string_pretty(&res).unwrap().
BodyOutcome(tool, body) ==
  IF FromJson(body).ok
  THEN ReturnOk(CallToolResultSuccess(
         <<ContentText(ToStringPretty(FromJson(body).v))>>))
  ELSE Panic

\* A tool that calls error_for_status() on the response before reading it.
ResponseOutcomeChecked(tool, resp) ==
  IF resp.status >= 400
  THEN SendErrOutcome(tool, "HTTP status client error")
  ELSE BodyOutcome(tool, resp.body)

\* What a tool makes of the response send() returned: the status is never
\* looked at, only the body is read.
ResponseOutcome(tool, resp) == BodyOutcome(tool, resp.body)

(***************************************************************************)
(* Inputs: argument payloads, remote responses, transport failures         *)
(***************************************************************************)
Id42 == JStr("42")
Id7 == JStr("7")

Payloads(tool) ==
  CASE tool = "retrieve_all_executions" ->
         [include_data : {JBool(TRUE)}, status : {JNull, JStr("success")},
          workflow_id : {Missing, Id42}, project_id : {Missing},
          limit : {JNum(10), JNum(300), Missing},
          cursor : {JStr("c1"), Missing}]
    [] tool \in {"retrieve_execution_by_id", "delete_execution_by_id"} ->
         [execution_id : {Id42, Id7, Missing, JNum(42)}]
    [] tool = "create_workflow" ->
         [name : {JStr("demo"), Missing}, nodes : {JOpaque("nodes"), JNull},
          connections : {JOpaque("connections"), Missing}]
    [] tool = "retrieve_workflows" ->
         [retrieve_workflow_params :
            {Missing} \cup
            {JObj(f) : f \in
               [active : {Missing}, tags : {Missing}, name : {Missing},
                project_id : {Missing}, exclude_pinned_data : {Missing},
                limit : {Missing, JNum(10), JNum(300)},
                cursor : {Missing, JNull, JStr("c1"), JNum(1)}]}]
    [] tool \in {"retrieve_workflow_by_id", "delete_workflow_by_id",
                 "activate_workflow_by_id", "deactivate_workflow_by_id",
                 "get_workflow_tags_by_workflow_id"} ->
         [workflow_id : {Id42, Id7, Missing, JNum(42)}]
    [] tool = "update_workflow_by_id" ->
         [workflow_id : {Id42, Missing}, name : {JStr("demo")},
          nodes : {JOpaque("nodes"), Missing},
          connections : {JOpaque("connections")}]
    [] tool = "update_workflow_tags_by_workflow_id" ->
         [workflow_id : {Id42, Missing},
          tags : {JArr(<<"t1">>), JArr(<<>>), JStr("t1")}]
    [] tool = "run_workflow" ->
         [webhook_path : {JStr("hook"), Missing},
          data : {Missing, JNull, JOpaque("data"), JStr("x")}]
    [] tool = "create_tag" -> [name : {JStr("demo"), Missing, JNum(1)}]
    [] tool = "retrieve_tags" ->
         [cursor : {Missing, JNull, JStr("c1"), JNum(1)}]
    [] tool \in {"retrieve_tag_by_id", "delete_tag_by_id"} ->
         [tag_id : {Id42, Id7, Missing}]
    [] tool = "update_tag_by_id" ->
         [tag_id : {Id42, Missing}, name : {JStr("demo"), Missing}]

BodyExample ==
  <<"{", "\"id\"", ":", "\"42\"", ",", "\"name\"", ":", "\"demo\"", "}">>
BodyLoose ==
  <<"{", " ", "\"name\"", ":", "\"demo\"", ",", "\n", "\"id\"", ":", "\"7\"", "}">>
BodyEmptyObject == <<"{", "}">>
BodyScalar == <<"true">>
BodyHtml == <<"<html>">>
BodyTruncated == <<"{", "\"id\"", ":">>

Bodies == {BodyExample, BodyLoose, BodyEmptyObject, BodyScalar, BodyHtml,
           BodyTruncated}
Statuses == {200, 404}
Responses == [status : Statuses, body : Bodies]

TransportErrors == {"connection refused", "operation timed out"}
BuilderError == "builder error"

\* Every tool with every payload, as <<tool, payload>>.
AllCalls == UNION {{<<tool, p>> : p \in Payloads(tool)} : tool \in Tools}

Callers == {"a", "b"}

(***************************************************************************)
(* The state machine                                                       *)
(***************************************************************************)
IdleCall == [pc |-> "idle"]

NoResponse == [status |-> 0, body |-> <<>>]

\* A run_workflow that keeps the webhook path in the shared base URL.
ServerAfterCallRebase(srv, tool, args) ==
  IF tool = "run_workflow"
  THEN [srv EXCEPT !.base_url = @ \o <<47>>]
  ELSE srv

\* Every tool takes &self: the handler cannot assign to the Server.
ServerAfterCall(srv, tool, args) == srv

\* No paginating remote: nothing is logged.
NoRemote == [pages |-> 0, served |-> <<>>]

Init ==
  /\ env \in EnvChoices
  /\ phase = "start"
  /\ server = NoServer
  /\ calls = [c \in Callers |-> IdleCall]
  /\ keysSeen = {}
  /\ remote = NoRemote

FromEnv ==
  /\ phase = "start"
  /\ IF FromEnvPanics(env)
     THEN phase' = "aborted" /\ server' = NoServer
     ELSE phase' = "running" /\ server' = FromEnvServer(env)
  /\ UNCHANGED <<env, calls, keysSeen, remote>>

\* The protocol layer deserializes the arguments; on success the tool body
\* runs up to its first await, send().
CallTool(c, tool, payload) ==
  /\ phase = "running"
  /\ calls[c].pc \in {"idle", "done"}
  /\ LET inflight == {d \in Callers \ {c} : calls[d].pc \in {"send", "body"}}
     IN  IF ~ParamsOk(tool, payload)
         THEN /\ calls' = [calls EXCEPT ![c] =
                    [pc |-> "done", tool |-> tool, payload |-> payload,
                     ran |-> FALSE, built |-> FALSE, reqs |-> <<>>,
                     sendErr |-> "", resp |-> NoResponse,
                     out |-> ReturnErr("invalid_params"), saw |-> inflight]]
              /\ UNCHANGED <<server, keysSeen>>
         ELSE LET args == Args(tool, payload)
                  rb == RequestBuilder(server, tool, args)
              IN  /\ calls' = [calls EXCEPT ![c] =
                        [pc |-> "send", tool |-> tool, payload |-> payload,
                         ran |-> TRUE, built |-> rb.ok,
                         reqs |-> IF rb.ok THEN <<rb.req>> ELSE <<>>,
                         sendErr |-> "", resp |-> NoResponse,
                         out |-> NoOutcome, saw |-> inflight]]
                  /\ server' = ServerAfterCall(server, tool, args)
                  /\ keysSeen' = IF rb.ok THEN keysSeen \cup {rb.req.headers}
                                 ELSE keysSeen
  /\ UNCHANGED <<env, phase, remote>>

\* send().await returns Ok(res).
SendOkStep(c, resp) ==
  /\ calls[c].pc = "send"
  /\ calls[c].built
  /\ calls' = [calls EXCEPT ![c] =
        IF calls[c].tool = "run_workflow"
        THEN [@ EXCEPT !.pc = "done", !.resp = resp, !.out = RunWorkflowOkOutcome]
        ELSE [@ EXCEPT !.pc = "body", !.resp = resp]]

SendOk(c, resp) ==
  /\ SendOkStep(c, resp)
  /\ UNCHANGED <<env, phase, server, keysSeen, remote>>

\* send().await returns Err(err): the builder's error, or a transport failure.
SendErr(c, err) ==
  /\ calls[c].pc = "send"
  /\ calls[c].built <=> err \in TransportErrors
  /\ calls' = [calls EXCEPT ![c] =
        [@ EXCEPT !.pc = "done", !.sendErr = err,
                  !.out = SendErrOutcome(calls[c].tool, err)]]
  /\ UNCHANGED <<env, phase, server, keysSeen, remote>>

\* res.json().await and the rest of the body.
ReadBody(c) ==
  /\ calls[c].pc = "body"
  /\ calls' = [calls EXCEPT ![c] =
        [@ EXCEPT !.pc = "done",
                  !.out = ResponseOutcome(calls[c].tool, calls[c].resp)]]
  /\ UNCHANGED <<env, phase, server, keysSeen, remote>>

Next ==
  \/ FromEnv
  \/ \E call \in AllCalls : CallTool("a", call[1], call[2])
  \/ \E resp \in Responses : SendOk("a", resp)
  \/ \E err \in TransportErrors \cup {BuilderError} : SendErr("a", err)
  \/ ReadBody("a")

Spec == Init /\ [][Next]_vars

(***************************************************************************)
(* Properties                                                              *)
(***************************************************************************)
Started(c) == calls[c].pc # "idle"
Finished(c) == calls[c].pc = "done"
Issued(c) == Started(c) /\ Len(calls[c].reqs) >= 1
IsSuccess(c) ==
  Finished(c) /\ calls[c].out.kind = "Ok" /\ ~calls[c].out.result.is_error
IsToolError(c) ==
  Finished(c) /\ calls[c].out.kind = "Ok" /\ calls[c].out.result.is_error
TextOf(c) == calls[c].out.result.content[1].text

\* C1: an invocation whose payload matches the tool's schema issues exactly
\* one outbound HTTP request, never zero and never more, whatever its outcome.
C1_ExactlyOneRequest ==
  \A c \in Callers :
    (Started(c) /\ calls[c].ran) =>
      /\ Len(calls[c].reqs) <= 1
      /\ Finished(c) => Len(calls[c].reqs) = 1

\* C2: when the send fails in transport, the invocation returns a tool
\* result tagged error whose only content is the text "Workflow error:
\* <details>"; it is never a protocol fault, and no second request is issued.
C2_SendFailureIsToolError ==
  \A c \in Callers :
    (Finished(c) /\ calls[c].sendErr \in TransportErrors) =>
      /\ calls[c].out.kind = "Ok"
      /\ calls[c].out.result.is_error
      /\ calls[c].out.result.content =
           <<[type |-> "text",
              text |-> <<"Workflow error: ", calls[c].sendErr>>]>>
      /\ Len(calls[c].reqs) = 1

C2_Witness ==
  /\ Finished("a")
  /\ calls["a"].tool = "delete_tag_by_id"
  /\ calls["a"].sendErr = "connection refused"
  /\ IsToolError("a")

\* C3 as stated: for every tool, run_workflow included, a success result
\* carries the pretty-printed form of the JSON body the remote returned.
C3_Original ==
  \A c \in Callers :
    IsSuccess(c) =>
      /\ FromJson(calls[c].resp.body).ok
      /\ Len(calls[c].out.result.content) = 1
      /\ TextOf(c) = ToStringPretty(FromJson(calls[c].resp.body).v)

ExamplePretty ==
  <<"{", "\n", "  ", "\"id\"", ": ", "\"42\"", ",",
         "\n", "  ", "\"name\"", ": ", "\"demo\"", "\n", "}">>

\* C3 amended: for every tool except run_workflow a success result carries
\* the pretty-printed form of the JSON body the remote returned (for the body
\* {"id":"42","name":"demo"} the text ExamplePretty); a success result of
\* run_workflow carries the fixed text "Workflow run successful".
C3_SuccessTextIsPrettyBody ==
  \A c \in Callers :
    IsSuccess(c) =>
      /\ Len(calls[c].out.result.content) = 1
      /\ calls[c].out.result.content[1].type = "text"
      /\ IF calls[c].tool = "run_workflow"
         THEN TextOf(c) = <<"Workflow run successful">>
         ELSE /\ FromJson(calls[c].resp.body).ok
              /\ TextOf(c) = ToStringPretty(FromJson(calls[c].resp.body).v)
              /\ calls[c].resp.body = BodyExample => TextOf(c) = ExamplePretty

C3_Witness ==
  /\ IsSuccess("a")
  /\ calls["a"].tool = "retrieve_workflow_by_id"
  /\ calls["a"].payload.workflow_id = Id42
  /\ calls["a"].resp = [status |-> 200, body |-> BodyExample]
  /\ TextOf("a") = ExamplePretty

\* C4: run_workflow issues a GET to {base_url}/webhook/{webhook_path} when
\* data is absent or null, and a POST to the same URL with data as the JSON
\* body when data is present.
C4_RunWorkflowVerb ==
  \A c \in Callers :
    (Started(c) /\ calls[c].tool = "run_workflow" /\ calls[c].ran) =>
      /\ Len(calls[c].reqs) = 1
      /\ calls[c].reqs[1].base = env.N8N_BASE_URL
      /\ calls[c].reqs[1].path = <<"/webhook/", calls[c].payload.webhook_path.s>>
      /\ calls[c].reqs[1].query = {}
      /\ IF calls[c].payload.data.t \in {"missing", "null"}
         THEN calls[c].reqs[1].verb = "GET" /\ calls[c].reqs[1].body = NoBody
         ELSE /\ calls[c].reqs[1].verb = "POST"
              /\ calls[c].reqs[1].body = calls[c].payload.data

C4_Witness ==
  /\ Issued("a")
  /\ calls["a"].tool = "run_workflow"
  /\ calls["a"].payload.data = JNull
  /\ calls["a"].reqs[1].verb = "GET"
  /\ calls["a"].reqs[1].path = <<"/webhook/", "hook">>

\* C5: every execution tool issues its request under /api/v1/executions:
\* retrieve_all_executions to the collection, retrieve_execution_by_id and
\* delete_execution_by_id to /api/v1/executions/{execution_id}.
C5_ExecutionPaths ==
  \A c \in Callers :
    Issued(c) =>
      /\ calls[c].tool = "retrieve_all_executions" =>
           calls[c].reqs[1].path = <<"/api/v1/executions">>
      /\ calls[c].tool \in {"retrieve_execution_by_id", "delete_execution_by_id"} =>
           calls[c].reqs[1].path =
             <<"/api/v1/executions/", calls[c].payload.execution_id.s>>

\* The verb and the path the CRUD operation of a workflow or tag tool has.
CrudVerb(tool) ==
  CASE tool \in {"retrieve_workflows", "retrieve_tags",
                 "retrieve_workflow_by_id", "retrieve_tag_by_id"} -> "GET"
    [] tool \in {"create_workflow", "create_tag", "activate_workflow_by_id",
                 "deactivate_workflow_by_id"} -> "POST"
    [] tool \in {"update_workflow_by_id", "update_tag_by_id"} -> "PUT"
    [] tool \in {"delete_workflow_by_id", "delete_tag_by_id"} -> "DELETE"

CrudPath(tool, payload) ==
  CASE tool \in {"retrieve_workflows", "create_workflow"} -> <<"/api/v1/workflows">>
    [] tool \in {"retrieve_workflow_by_id", "update_workflow_by_id",
                 "delete_workflow_by_id"} ->
         <<"/api/v1/workflows/", payload.workflow_id.s>>
    [] tool = "activate_workflow_by_id" ->
         <<"/api/v1/workflows/", payload.workflow_id.s, "/activate">>
    [] tool = "deactivate_workflow_by_id" ->
         <<"/api/v1/workflows/", payload.workflow_id.s, "/deactivate">>
    [] tool \in {"retrieve_tags", "create_tag"} -> <<"/tags">>
    [] tool \in {"retrieve_tag_by_id", "update_tag_by_id", "delete_tag_by_id"} ->
         <<"/tags/", payload.tag_id.s>>

CrudTools ==
  {"retrieve_workflows", "retrieve_tags", "retrieve_workflow_by_id",
   "retrieve_tag_by_id", "create_workflow", "create_tag",
   "activate_workflow_by_id", "deactivate_workflow_by_id",
   "update_workflow_by_id", "update_tag_by_id", "delete_workflow_by_id",
   "delete_tag_by_id"}

\* C6: every workflow and tag tool issues the verb and path of its CRUD
\* operation: lists GET the collection, get-by-id GETs the item, create POSTs
\* to the collection, update PUTs the item, delete DELETEs the item,
\* activate and deactivate POST to the item's sub-path.
C6_CrudVerbAndPath ==
  \A c \in Callers :
    (Issued(c) /\ calls[c].tool \in CrudTools) =>
      /\ calls[c].reqs[1].verb = CrudVerb(calls[c].tool)
      /\ calls[c].reqs[1].path = CrudPath(calls[c].tool, calls[c].payload)

\* The JSON types a required parameter of Rust type ty can be read from.
RequiredJsonTypes(ty) ==
  CASE ty = "String" -> {"str"}
    [] ty = "bool" -> {"bool"}
    [] ty = "u8" -> {"num"}
    [] ty = "Value" -> {"null", "str", "num", "bool", "arr", "obj", "json"}
    [] ty = "ExecutionStatus" -> {"null"}
    [] ty = "Vec<Id>" -> {"arr"}
    [] ty = "RetrieveAllWorkflowParams" -> {"obj"}
    [] OTHER -> {"missing", "null", "str", "num", "bool", "arr", "obj", "json"}

LacksRequired(tool, payload) ==
  \E k \in DOMAIN Schema(tool) :
    payload[k].t \notin RequiredJsonTypes(Schema(tool)[k])

\* C7: an invocation whose payload lacks a required field of the tool, or
\* gives it the wrong type, is rejected with a validation error before the
\* tool body runs, and no outbound request is issued for it.
C7_InvalidPayloadRejected ==
  \A c \in Callers :
    (Started(c) /\ LacksRequired(calls[c].tool, calls[c].payload)) =>
      /\ Finished(c)
      /\ ~calls[c].ran
      /\ calls[c].out = [kind |-> "Err", error |-> "invalid_params"]
      /\ calls[c].reqs = <<>>

C7_Witness ==
  /\ Finished("a")
  /\ calls["a"].tool = "create_workflow"
  /\ calls["a"].payload.name = JStr("demo")
  /\ calls["a"].payload.connections = Missing
  /\ calls["a"].out.kind = "Err"
  /\ calls["a"].reqs = <<>>

\* C8: every outbound request of every tool, the webhook request of
\* run_workflow included, carries the header X-N8N-API-KEY with the API key
\* read at construction, the same value for the whole process lifetime.
C8_ApiKeyHeaderOnEveryRequest ==
  /\ \A c \in Callers :
       Started(c) =>
         \A i \in 1..Len(calls[c].reqs) :
           <<"X-N8N-API-KEY", env.N8N_API_KEY>> \in calls[c].reqs[i].headers
  /\ keysSeen \subseteq {{<<"X-N8N-API-KEY", env.N8N_API_KEY>>}}

C8_Witness ==
  /\ Issued("a")
  /\ calls["a"].tool = "run_workflow"
  /\ calls["a"].reqs[1].headers = {<<"X-N8N-API-KEY", KeyGood>>}
  /\ keysSeen = {{<<"X-N8N-API-KEY", KeyGood>>}}

IsSet(v) == v # Unset
IsText(v) == IsSet(v) /\ \A i \in 1..Len(v) : v[i] < 128
LegalHeaderText(v) ==
  \A i \in 1..Len(v) : v[i] = 9 \/ (v[i] >= 32 /\ v[i] # 127)

\* No request carries anything but the base URL and the API key of the
\* environment, and it is what it would be with no username and password.
UserPasswordUnused ==
  \A c \in Callers :
    Started(c) =>
      \A i \in 1..Len(calls[c].reqs) :
        /\ calls[c].reqs[i].base = env.N8N_BASE_URL
        /\ calls[c].reqs[i].headers = {<<"X-N8N-API-KEY", env.N8N_API_KEY>>}
        /\ calls[c].reqs[i] =
             RequestBuilder([server EXCEPT !.n8n_user = Unset,
                                           !.n8n_password = Unset],
                            calls[c].tool,
                            Args(calls[c].tool, calls[c].payload)).req

\* C9 as stated: from_env aborts when N8N_API_KEY or N8N_BASE_URL is absent,
\* and succeeds when both are present whether or not N8N_USER and
\* N8N_PASSWORD are set; username and password affect no request.
C9_Original ==
  /\ phase # "start" =>
       (phase = "aborted" <=>
          (~IsSet(env.N8N_API_KEY) \/ ~IsSet(env.N8N_BASE_URL)))
  /\ phase = "aborted" => \A c \in Callers : ~Started(c)
  /\ UserPasswordUnused

\* C9 amended: from_env aborts when N8N_API_KEY or N8N_BASE_URL is absent or
\* not valid Unicode, or when the API key is not a legal header value;
\* otherwise it succeeds whether or not N8N_USER and N8N_PASSWORD are set.  After an abort there is no Server and
\* no tool is called; username and password affect no request.
C9_FromEnvFailsFast ==
  /\ phase # "start" =>
       (phase = "aborted" <=>
          \/ ~IsText(env.N8N_API_KEY)
          \/ ~IsText(env.N8N_BASE_URL)
          \/ ~LegalHeaderText(env.N8N_API_KEY))
  /\ phase = "aborted" => (server = NoServer /\ \A c \in Callers : ~Started(c))
  /\ UserPasswordUnused

C9_Witness ==
  /\ phase = "running"
  /\ env.N8N_USER = UserGood
  /\ env.N8N_PASSWORD = Unset
  /\ server.n8n_user = UserGood
  /\ Issued("a")
  /\ calls["a"].tool = "create_tag"

(***************************************************************************)
(* Concurrent invocations: two callers whose steps interleave at the       *)
(* awaits of the tool bodies                                               *)
(***************************************************************************)
ConcEnvs ==
  {e \in EnvChoices :
     /\ e.N8N_API_KEY = KeyGood /\ e.N8N_BASE_URL = UrlGood
     /\ e.N8N_USER = UserGood /\ e.N8N_PASSWORD = Unset}

ConcValue(ty, v) ==
  CASE v.t = "str" -> v \in {Id42, JStr("demo"), JStr("hook"), JStr("c1")}
    [] v.t = "null" -> ty = "ExecutionStatus"
    [] v.t = "arr" -> v.a # <<>>
    [] v.t = "obj" -> v.f.limit = Missing /\ v.f.cursor = JStr("c1")
    [] OTHER -> TRUE

ConcPayloads(tool) ==
  {p \in Payloads(tool) :
     ParamsOk(tool, p) /\ \A k \in DOMAIN p : ConcValue(Schema(tool)[k], p[k])}

ConcCalls == UNION {{<<tool, p>> : p \in ConcPayloads(tool)} : tool \in Tools}

ConcResponses == [status : {200}, body : {BodyExample, BodyHtml}]
ConcErrors == {"connection refused", BuilderError}

InitConc == Init /\ env \in ConcEnvs

NextConc ==
  \/ FromEnv
  \/ \E c \in Callers : \E call \in ConcCalls : CallTool(c, call[1], call[2])
  \/ \E c \in Callers : \E resp \in ConcResponses : SendOk(c, resp)
  \/ \E c \in Callers : \E err \in ConcErrors : SendErr(c, err)
  \/ \E c \in Callers : ReadBody(c)

SpecConc == InitConc /\ [][NextConc]_vars

\* What an invocation does when it runs alone on the Server from_env built.
AloneRequests(tool, payload) ==
  LET rb == RequestBuilder(FromEnvServer(env), tool, Args(tool, payload))
  IN  IF rb.ok THEN <<rb.req>> ELSE <<>>

AloneOutcome(tool, sendErr, resp) ==
  IF sendErr # "" THEN SendErrOutcome(tool, sendErr)
  ELSE IF tool = "run_workflow" THEN RunWorkflowOkOutcome
       ELSE BodyOutcome(tool, resp.body)

SameAsAlone ==
  \A c \in Callers :
    (Started(c) /\ calls[c].ran) =>
      /\ calls[c].reqs = AloneRequests(calls[c].tool, calls[c].payload)
      /\ Finished(c) =>
           calls[c].out = AloneOutcome(calls[c].tool, calls[c].sendErr, calls[c].resp)
      /\ \A d \in Callers :
           (Started(d) /\ calls[d].ran /\ calls[d].tool = calls[c].tool
              /\ calls[d].payload = calls[c].payload) =>
             /\ calls[d].reqs = calls[c].reqs
             /\ (Finished(c) /\ Finished(d) /\ calls[d].sendErr = calls[c].sendErr
                   /\ calls[d].resp = calls[c].resp) => calls[d].out = calls[c].out

\* C10: no invocation modifies the connection config or any other state the
\* invocations share, so under every interleaving of the send and receive
\* steps of concurrent invocations each one issues the request and returns
\* the result it issues and returns when it runs alone against the same
\* remote responses.
C10_InvocationsIndependent ==
  /\ [][phase = "running" => (server' = server /\ env' = env)]_vars
  /\ [](phase = "running" => server = FromEnvServer(env))
  /\ []SameAsAlone

C10_Witness ==
  /\ calls["b"].pc = "done" /\ calls["b"].saw = {}
  /\ calls["a"].pc = "body" /\ calls["a"].saw = {"b"}
  /\ calls["b"].tool = "run_workflow" /\ IsSuccess("b")
  /\ calls["a"].tool = "retrieve_workflow_by_id"
  /\ calls["a"].reqs[1].path = <<"/api/v1/workflows/", "42">>

(***************************************************************************)
(* Pagination parameters of the list tools                                 *)
(***************************************************************************)
ListTools == {"retrieve_workflows", "retrieve_all_executions", "retrieve_tags"}

\* The cursor or limit the payload gives a list tool, Missing when it gives
\* none; retrieve_tags declares no limit.
PagingValue(tool, payload, k) ==
  CASE tool = "retrieve_workflows" ->
         IF payload.retrieve_workflow_params.t = "obj"
         THEN payload.retrieve_workflow_params.f[k]
         ELSE Missing
    [] tool = "retrieve_tags" -> IF k = "cursor" THEN payload.cursor ELSE Missing
    [] OTHER -> payload[k]

\* The payload is well formed in everything but cursor and limit.
WellFormedBesidesPaging(tool, payload) ==
  CASE tool = "retrieve_workflows" -> payload.retrieve_workflow_params.t = "obj"
    [] tool = "retrieve_all_executions" ->
         /\ payload.include_data.t = "bool" /\ payload.status.t = "null"
         /\ payload.workflow_id.t \in {"missing", "null", "str"}
         /\ payload.project_id.t \in {"missing", "null", "str"}
    [] OTHER -> TRUE

\* C11: each list tool accepts cursor and limit as an optional pair: an
\* invocation that omits both passes validation and issues its request, and
\* an omitted cursor or limit is left out of the request's query parameters.
C11_PagingPairOptional ==
  \A c \in Callers :
    (/\ Started(c) /\ calls[c].tool \in ListTools
     /\ WellFormedBesidesPaging(calls[c].tool, calls[c].payload)) =>
      /\ (/\ PagingValue(calls[c].tool, calls[c].payload, "cursor") = Missing
          /\ PagingValue(calls[c].tool, calls[c].payload, "limit") = Missing) =>
           (calls[c].ran /\ Len(calls[c].reqs) = 1)
      /\ Issued(c) =>
           \A k \in {"cursor", "limit"} :
             PagingValue(calls[c].tool, calls[c].payload, k) = Missing =>
               \A q \in calls[c].reqs[1].query : q[1] # k

(***************************************************************************)
(* Responses that are not JSON, and responses with an error status         *)
(***************************************************************************)
Received(c) == Finished(c) /\ calls[c].resp.status # 0

\* The bodies serde_json accepts, said without the parser: a scalar, or
\* braces around members.
WellFormedBodies == {BodyExample, BodyLoose, BodyEmptyObject, BodyScalar}

\* C13 as stated: for every tool, when the send succeeds but the response
\* body is not valid JSON, the invocation aborts: it produces neither a
\* success result nor an error result.
C13_Original ==
  \A c \in Callers :
    (Received(c) /\ calls[c].resp.body \notin WellFormedBodies) =>
      calls[c].out = [kind |-> "panic"]

\* C13 amended: for every tool except run_workflow, when the send succeeds
\* but the response body is not valid JSON, the invocation aborts and
\* produces neither a success result nor an error result; run_workflow never
\* reads the body and returns its success result.
C13_BadBodyAborts ==
  \A c \in Callers :
    (Received(c) /\ calls[c].resp.body \notin WellFormedBodies) =>
      IF calls[c].tool = "run_workflow"
      THEN IsSuccess(c) /\ TextOf(c) = <<"Workflow run successful">>
      ELSE calls[c].out = [kind |-> "panic"]

C13_Witness ==
  /\ Received("a")
  /\ calls["a"].tool = "create_tag"
  /\ calls["a"].resp.body = BodyHtml
  /\ calls["a"].out.kind = "panic"

\* C14: the tool result does not depend on the HTTP status of the response:
\* a response with a non-2xx status and a JSON body yields the success result
\* a 2xx response with that body yields, and only a failed send yields an
\* error result.
C14_StatusIgnored ==
  \A c \in Callers :
    /\ (Received(c) /\ calls[c].resp.body \in WellFormedBodies) =>
         /\ IsSuccess(c)
         /\ TextOf(c) =
              IF calls[c].tool = "run_workflow"
              THEN <<"Workflow run successful">>
              ELSE ToStringPretty(FromJson(calls[c].resp.body).v)
    /\ IsToolError(c) => (calls[c].sendErr # "" /\ calls[c].resp.status = 0)

C14_Witness ==
  /\ Received("a")
  /\ calls["a"].tool = "delete_workflow_by_id"
  /\ calls["a"].resp = [status |-> 404, body |-> BodyExample]
  /\ IsSuccess("a")
  /\ TextOf("a") = ExamplePretty

(***************************************************************************)
(* Listing workflows page by page against a paginating stub of the remote  *)
(***************************************************************************)
MaxPages == 3
MaxServed == 4

\* The page a request for the workflow collection asks the stub for: the
\* first without a cursor, else the page the cursor names.
PageOfRequest(req) ==
  LET cur == {q \in req.query : q[1] = "cursor"}
  IN  IF cur = {} THEN 1
      ELSE CHOOSE i \in 1..Len(CursorRaw) : \A q \in cur : q[2] = <<CursorRaw[i]>>

\* The envelope of page i of n: its data and the cursor of the next page.
Envelope(i, n) ==
  <<"{", "\"nextCursor\"", ":", IF i < n THEN CursorToken[i + 1] ELSE "null",
    ",", "\"data\"", ":", PageToken[i], "}">>

\* The caller reads the next cursor off the text of a result.
NextCursorToken(text) ==
  text[(CHOOSE j \in 1..Len(text) : text[j] = "\"nextCursor\"") + 2]

CursorOfToken(tok) ==
  CursorRaw[CHOOSE i \in 1..Len(CursorToken) : CursorToken[i] = tok]

PagePayload(cursor, limit) ==
  [retrieve_workflow_params |->
     JObj([active |-> Missing, tags |-> Missing, name |-> Missing,
           project_id |-> Missing, exclude_pinned_data |-> Missing,
           limit |-> limit, cursor |-> cursor])]

PageLimits == {Missing, JNum(10)}

PageEnvs ==
  {e \in EnvChoices :
     /\ e.N8N_API_KEY = KeyGood /\ e.N8N_BASE_URL = UrlGood
     /\ e.N8N_USER = Unset /\ e.N8N_PASSWORD = Unset}

InitPages ==
  /\ env \in PageEnvs
  /\ phase = "start"
  /\ server = NoServer
  /\ calls = [c \in Callers |-> IdleCall]
  /\ keysSeen = {}
  /\ remote \in [pages : 1..MaxPages, served : {<<>>}]

\* retrieve_workflows with cursor unset.
FirstPage(limit) ==
  /\ Len(remote.served) < MaxServed
  /\ CallTool("a", "retrieve_workflows", PagePayload(Missing, limit))

\* retrieve_workflows with the nextCursor of the previous result as cursor.
NextPage(limit) ==
  /\ Len(remote.served) < MaxServed
  /\ IsSuccess("a")
  /\ calls["a"].tool = "retrieve_workflows"
  /\ NextCursorToken(TextOf("a")) # "null"
  /\ CallTool("a", "retrieve_workflows",
              PagePayload(JStr(CursorOfToken(NextCursorToken(TextOf("a")))), limit))

\* The stub answers the request in flight with the page it asks for.
StubServe ==
  /\ calls["a"].pc = "send"
  /\ calls["a"].built
  /\ LET page == PageOfRequest(calls["a"].reqs[1])
     IN  /\ SendOkStep("a", [status |-> 200, body |-> Envelope(page, remote.pages)])
         /\ remote' = [remote EXCEPT !.served = Append(@, page)]
  /\ UNCHANGED <<env, phase, server, keysSeen>>

NextPages ==
  \/ FromEnv
  \/ \E limit \in PageLimits : FirstPage(limit)
  \/ \E limit \in PageLimits : NextPage(limit)
  \/ StubServe
  \/ \E err \in TransportErrors : SendErr("a", err)
  \/ ReadBody("a")

SpecPages == InitPages /\ [][NextPages]_vars

PageCursor(c) == calls[c].payload.retrieve_workflow_params.f.cursor

\* C12: against a paginating backend, retrieve_workflows with cursor unset
\* returns page 1 and a following call whose cursor is the nextCursor of the
\* previous response returns the subsequent page: the cursor is forwarded
\* unchanged, each call returns exactly one page's envelope, and no page is
\* skipped or repeated.
C12_PagesInOrder ==
  /\ Issued("a") =>
       IF PageCursor("a") = Missing
       THEN \A q \in calls["a"].reqs[1].query : q[1] # "cursor"
       ELSE <<"cursor", <<PageCursor("a").s>>>> \in calls["a"].reqs[1].query
  /\ (Started("a") /\ calls["a"].resp.status # 0) =>
       LET k == Len(remote.served)
       IN  /\ k >= 1
           /\ remote.served[k] =
                IF PageCursor("a") = Missing THEN 1 ELSE remote.served[k - 1] + 1
           /\ remote.served[k] <= remote.pages
           /\ calls["a"].resp.body = Envelope(remote.served[k], remote.pages)
           /\ Finished("a") =>
                /\ IsSuccess("a")
                /\ TextOf("a") =
                     <<"{", "\n", "  ", "\"data\"", ": ", PageToken[remote.served[k]],
                       ",", "\n", "  ", "\"nextCursor\"", ": ",
                       IF remote.served[k] < remote.pages
                       THEN CursorToken[remote.served[k] + 1] ELSE "null",
                       "\n", "}">>

C12_Witness ==
  /\ remote.served = <<1, 2, 3>>
  /\ IsSuccess("a")
  /\ PageCursor("a") = JStr("c3")
  /\ NextCursorToken(TextOf("a")) = "null"

====
